---------------------------- MODULE Spec2Model ----------------------------
(***************************************************************************)
(* A model of darksky_pandas/client.py: the date range enumerator          *)
(* (dayset), the block-to-table converter (datablock_to_dataframe), the    *)
(* hourly normalizer (hourly_to_dataframe), the daily aggregator           *)
(* (forecast_to_daily_dataframe) and the two fetch loops                   *)
(* (get_daily_dataframe, get_daily_and_hourly_dataframes).                 *)
(*                                                                         *)
(* Time is counted in hours of a scaled-down day of HoursPerDay hours; an  *)
(* instant given to dayset is counted in slots of a day of SlotsPerDay     *)
(* slots.  Numbers (temperature, ghi) are counted in thousandths, so that  *)
(* rounding to two decimals is rounding to a multiple of 10.               *)
(***************************************************************************)
EXTENDS Integers, Sequences, FiniteSets, TLC

VARIABLES
    pc,         \* position of the call: "call", "loop", "waiting", "done"
    op,         \* the function that was called
    arg,        \* its argument
    ret,        \* what it returned or raised, None while it runs
    build,      \* the installed pandas: does DataFrame.agg({}) raise?
    days,       \* fetch loops: the enumerated days
    idx,        \* fetch loops: number of days fully handled
    requests,   \* fetch loops: the requests issued so far, in order
    responses,  \* fetch loops: the responses received so far, in order
    frames,     \* fetch loops: the per-day daily tables collected so far
    hframes     \* get_daily_and_hourly_dataframes: the per-day hourly tables

vars == <<pc, op, arg, ret, build, days, idx, requests, responses, frames, hframes>>

----------------------------------------------------------------------------
\* Bounds of the model.

\* dayset is given instants of the days 0..MaxDay
MaxDay == 2
\* an instant has one of SlotsPerDay times of day
SlotsPerDay == 3
\* a block given to the converters has up to MaxRecords records
MaxRecords == 3
\* a day has HoursPerDay hours
HoursPerDay == 2
\* a forecast has a daily block of up to MaxDays days
MaxDays == 2
\* and an hourly block of up to MaxHourly hours
MaxHourly == 3

\* The azimuths (degrees) and irradiances (thousandths) of the solar objects
Azimuths == {100, 270}
Ghis == {4, 500}

----------------------------------------------------------------------------
\* Values.

None == [kind |-> "none"]
Raise(exc) == [kind |-> "error", exc |-> exc]
List(items) == [kind |-> "list", items |-> items]

IsError(r) == r.kind = "error"

\* The fetch loops have not run
NoFetch ==
    /\ days = <<>>
    /\ idx = 0
    /\ requests = <<>>
    /\ responses = <<>>
    /\ frames = <<>>
    /\ hframes = <<>>

\* The elements of a finite set of integers, in ascending order: sorted(set)
RECURSIVE Sorted(_)
Sorted(S) ==
    IF S = {} THEN <<>>
    ELSE LET m == CHOOSE x \in S : \A y \in S : x <= y
         IN  <<m>> \o Sorted(S \ {m})

Range(s) == {s[i] : i \in DOMAIN s}

\* The element of a one-element set.  Only({e(x) : x \in {v}}) is e with the
\* local variable x set to the value of v, v evaluated once.
Only(S) == CHOOSE y \in S : TRUE

----------------------------------------------------------------------------
\* dayset

Instants == 0 .. ((MaxDay + 1) * SlotsPerDay - 1)

\* datetime.date(): the calendar date of an instant
Date(t) == t \div SlotsPerDay

\* rrule(DAILY, dtstart, until): dtstart, dtstart + 1 day, ... up to until
RECURSIVE RRuleDaily(_, _)
RRuleDaily(dtstart, until) ==
    IF dtstart > until THEN <<>>
    ELSE <<dtstart>> \o RRuleDaily(dtstart + SlotsPerDay, until)

dayset(start, end) ==
    LET occ == RRuleDaily(start, end)
        res == [i \in DOMAIN occ |-> Date(occ[i])]
    IN  Sorted(Range(res))

----------------------------------------------------------------------------
\* Tables (pandas.DataFrame) and JSON blocks.

\* A cell of a table: a number, a nested object, or missing (NaN / None)
NaN == [k |-> "nan"]
Num(n) == [k |-> "num", v |-> n]
Obj(d) == [k |-> "obj", v |-> d]

\* JSON null
Null == [k |-> "null"]

\* A table: its columns and its rows in order; a row has its index value
\* (None before set_index) and one cell per column
Table(cols, rows) == [kind |-> "table", cols |-> cols, rows |-> rows]

\* A timestamp: the instant (epoch) and the timezone it is shown in
Timestamp(epoch, tz) == [epoch |-> epoch, tz |-> tz]

\* The cell pandas makes of a JSON value: null is missing, an object is kept
\* as an object; the only field of the records that is not a number is "solar"
ToCell(field, v) ==
    IF field = "solar" THEN (IF v = Null THEN NaN ELSE Obj(v)) ELSE Num(v)

\* pd.DataFrame(d) of a list of dicts: the columns are the union of the keys,
\* a key a record lacks is a missing cell
DataFrame(d) ==
    LET cols == UNION {DOMAIN d[i] : i \in DOMAIN d}
    IN  Table(cols,
              [i \in DOMAIN d |->
                  [time |-> None,
                   cell |-> [c \in cols |->
                               IF c \in DOMAIN d[i] THEN ToCell(c, d[i][c])
                               ELSE NaN]]])

\* pd.to_datetime(x, unit='s', utc=True)
to_datetime(x) == Timestamp(x.v, "UTC")

\* df['time'] = pd.to_datetime(...); df.set_index('time')
SetTimeIndex(df) ==
    Table(df.cols \ {"time"},
          [i \in DOMAIN df.rows |->
              [time |-> to_datetime(df.rows[i].cell["time"]),
               cell |-> [c \in df.cols \ {"time"} |-> df.rows[i].cell[c]]]])

datablock_to_dataframe(d) ==
    Only({IF "time" \notin df.cols THEN Raise("KeyError")
          ELSE SetTimeIndex(df) :
             df \in {DataFrame(d)}})

----------------------------------------------------------------------------
\* hourly_to_dataframe

\* The rotation without its wrap at 360
RotateNoWrap(x) == x + 90

\* lambda x: (x + 90) % 360
Rotate(x) == (x + 90) % 360

\* f'solar{name.title()}' for the fields of a solar object
SolarColumn(name) ==
    CASE name = "azimuth" -> "solarAzimuth"
      [] name = "ghi" -> "solarGhi"

RECURSIVE Flatten(_)
Flatten(ss) == IF ss = <<>> THEN <<>> ELSE Head(ss) \o Flatten(Tail(ss))

\* A left join on the index in which a column of right replaces the column of
\* left that has its name
JoinOverwrite(left, right) ==
    LET missing == [c \in right.cols |-> NaN]
        Matches(l) ==
            SelectSeq(right.rows, LAMBDA r : r.time.epoch = l.time.epoch)
        Joined(l) ==
            IF Matches(l) = <<>>
            THEN <<[time |-> l.time, cell |-> missing @@ l.cell]>>
            ELSE [j \in DOMAIN Matches(l) |->
                     [time |-> l.time, cell |-> Matches(l)[j].cell @@ l.cell]]
    IN  Table(left.cols \cup right.cols,
              Flatten([i \in DOMAIN left.rows |-> Joined(left.rows[i])]))

\* left.join(right): a left join on the index, refused when a column name is
\* in both
Join(left, right) ==
    IF left.cols \cap right.cols # {} THEN Raise("ValueError")
    ELSE LET missing == [c \in right.cols |-> NaN]
             Matches(l) ==
                 SelectSeq(right.rows,
                           LAMBDA r : r.time.epoch = l.time.epoch)
             Joined(l) ==
                 IF Matches(l) = <<>>
                 THEN <<[time |-> l.time, cell |-> l.cell @@ missing]>>
                 ELSE [j \in DOMAIN Matches(l) |->
                          [time |-> l.time,
                           cell |-> l.cell @@ Matches(l)[j].cell]]
         IN  Table(left.cols \cup right.cols,
                   Flatten([i \in DOMAIN left.rows |-> Joined(left.rows[i])]))

\* df.drop(col, axis=1)
Drop(df, col) ==
    Table(df.cols \ {col},
          [i \in DOMAIN df.rows |->
              [time |-> df.rows[i].time,
               cell |-> [c \in df.cols \ {col} |-> df.rows[i].cell[c]]]])

\* df['solar'].dropna().apply(pd.Series): one row per non-missing solar cell,
\* one column per field of the objects; of an empty series, apply returns an
\* empty series, which has no columns
ExpandSolar(df) ==
    LET kept == SelectSeq(df.rows, LAMBDA r : r.cell["solar"] # NaN)
        cols == UNION {DOMAIN kept[i].cell["solar"].v : i \in DOMAIN kept}
    IN  Table(cols,
              [i \in DOMAIN kept |->
                  [time |-> kept[i].time,
                   cell |-> [c \in cols |->
                               IF c \in DOMAIN kept[i].cell["solar"].v
                               THEN Num(kept[i].cell["solar"].v[c])
                               ELSE NaN]]])

\* solar['azimuth'] = solar['azimuth'].apply(lambda x: (x + 90) % 360)
RotateAzimuth(solar) ==
    Table(solar.cols,
          [i \in DOMAIN solar.rows |->
              [time |-> solar.rows[i].time,
               cell |-> [c \in solar.cols |->
                           IF c = "azimuth" /\ solar.rows[i].cell[c] # NaN
                           THEN Num(Rotate(solar.rows[i].cell[c].v))
                           ELSE solar.rows[i].cell[c]]]])

\* solar.columns = [f'solar{name.title()}' for name in solar.columns]
RenameSolar(solar) ==
    Table({SolarColumn(n) : n \in solar.cols},
          [i \in DOMAIN solar.rows |->
              [time |-> solar.rows[i].time,
               cell |-> [c \in {SolarColumn(n) : n \in solar.cols} |->
                           solar.rows[i].cell[
                               CHOOSE n \in solar.cols : SolarColumn(n) = c]]]])

\* The part of hourly_to_dataframe under "if 'solar' in df.columns"
FlattenSolar(df) ==
    Only({IF "azimuth" \notin solar.cols THEN Raise("KeyError")
          ELSE Only({Only({Only({IF IsError(joined) THEN joined
                                 ELSE Drop(joined, "solar") :
                                    joined \in {Join(df, renamed)}}) :
                                renamed \in {RenameSolar(rotated)}}) :
                        rotated \in {RotateAzimuth(solar)}}) :
             solar \in {ExpandSolar(df)}})

hourly_to_dataframe(d) ==
    Only({IF IsError(df) THEN df
          ELSE IF "solar" \notin df.cols THEN df
          ELSE FlattenSolar(df) :
             df \in {datablock_to_dataframe(d)}})

----------------------------------------------------------------------------
\* The calls of datablock_to_dataframe and hourly_to_dataframe.

\* The solar objects of the records: azimuth and ghi, either may be lacking
SolarObjects ==
    {[azimuth |-> a, ghi |-> g] : a \in Azimuths, g \in Ghis}
        \cup {[azimuth |-> a] : a \in Azimuths}
        \cup {[ghi |-> g] : g \in Ghis}

\* The record of hour t: a temperature, and a solar field that is absent,
\* null or an object
HourRecords(t) ==
    {[time |-> t, temperature |-> 5]}
        \cup {[time |-> t, temperature |-> 5, solar |-> s] :
                 s \in SolarObjects \cup {Null}}

\* The blocks of n records of the consecutive hours 0, 1, ...
RECURSIVE BlocksOfLen(_)
BlocksOfLen(n) ==
    IF n = 0 THEN {<<>>}
    ELSE {Append(b, r) : b \in BlocksOfLen(n - 1), r \in HourRecords(n - 1)}

Blocks == UNION {BlocksOfLen(n) : n \in 0 .. MaxRecords}

InitBlock ==
    /\ pc = "call"
    /\ op \in {"datablock_to_dataframe", "hourly_to_dataframe"}
    /\ arg \in Blocks
    /\ ret = None
    /\ build = [aggEmptyRaises |-> FALSE]
    /\ NoFetch

CallDatablock ==
    /\ pc = "call"
    /\ op = "datablock_to_dataframe"
    /\ ret' = datablock_to_dataframe(arg)
    /\ pc' = "done"
    /\ UNCHANGED <<op, arg, build, days, idx, requests, responses, frames, hframes>>

CallHourly ==
    /\ pc = "call"
    /\ op = "hourly_to_dataframe"
    /\ ret' = hourly_to_dataframe(arg)
    /\ pc' = "done"
    /\ UNCHANGED <<op, arg, build, days, idx, requests, responses, frames, hframes>>

NextBlock == CallDatablock \/ CallHourly

SpecBlock == InitBlock /\ [][NextBlock]_vars

----------------------------------------------------------------------------
\* forecast_to_daily_dataframe

\* The offset from UTC of a timezone, in hours
UtcOffset(tz) ==
    CASE tz = "UTC" -> 0
      [] tz = "America/Chicago" -> -1
      [] tz = "Europe/Brussels" -> 1

\* The local calendar day of a timestamp, and the instant of a local midnight
LocalDay(ts) == (ts.epoch + UtcOffset(ts.tz)) \div HoursPerDay
LocalMidnight(day, tz) == day * HoursPerDay - UtcOffset(tz)

\* df.tz_convert(tz): the same instants, shown in tz
tz_convert(df, tz) ==
    Table(df.cols,
          [i \in DOMAIN df.rows |->
              [time |-> Timestamp(df.rows[i].time.epoch, tz),
               cell |-> df.rows[i].cell]])

\* agg = {'temperature': np.mean, 'solarGhi': np.sum}
AggFunc == [temperature |-> "mean", solarGhi |-> "sum"]

\* Every key of agg, whether or not the hourly table has the column
AggKeysUnfiltered(hourly) == DOMAIN AggFunc

\* {column: agg[column] for column in agg if column in hourly.columns}
AggKeys(hourly) == {column \in DOMAIN AggFunc : column \in hourly.cols}

\* An exact quotient, before rounding
Frac(n, d) == [k |-> "frac", n |-> n, d |-> d]

RECURSIVE SumCells(_, _, _)
SumCells(rows, I, c) ==
    IF I = {} THEN 0
    ELSE LET i == CHOOSE x \in I : TRUE
         IN  rows[i].cell[c].v + SumCells(rows, I \ {i}, c)

\* hourly.resample('d').agg(agg): one row per local calendar day from the
\* first to the last day of the index, at that day's local midnight; the
\* mean of the day's non-missing values (missing when it has none), or their
\* sum (0 when it has none).  A key that is no column is a KeyError.  With no
\* key at all the outcome depends on the pandas installed: an error, or an
\* empty table.
ResampleAgg(hourly, keys) ==
    IF keys = {}
    THEN (IF build.aggEmptyRaises THEN Raise("ValueError") ELSE Table({}, <<>>))
    ELSE IF ~(keys \subseteq hourly.cols) THEN Raise("KeyError")
    ELSE LET rows == hourly.rows
             tz == rows[1].time.tz
             dayOf == {LocalDay(rows[i].time) : i \in DOMAIN rows}
             lo == CHOOSE x \in dayOf : \A y \in dayOf : x <= y
             hi == CHOOSE x \in dayOf : \A y \in dayOf : x >= y
             In(day, c) == {i \in DOMAIN rows :
                               /\ LocalDay(rows[i].time) = day
                               /\ rows[i].cell[c] # NaN}
             Agg(day, c) ==
                 IF AggFunc[c] = "mean"
                 THEN (IF In(day, c) = {} THEN NaN
                       ELSE Frac(SumCells(rows, In(day, c), c),
                                 Cardinality(In(day, c))))
                 ELSE Num(SumCells(rows, In(day, c), c))
         IN  Table(keys,
                   [n \in 1 .. (hi - lo + 1) |->
                       [time |-> Timestamp(LocalMidnight(lo + n - 1, tz), tz),
                        cell |-> [c \in keys |-> Agg(lo + n - 1, c)]]])

\* The integer nearest to n / d, a tie going up
RoundHalfUp(n, d) == (2 * n + d) \div (2 * d)

\* The integer nearest to n / d, a tie going to the even one (numpy.round)
RoundHalfEven(n, d) ==
    LET q == n \div d
        r == n % d
    IN  IF 2 * r < d THEN q
        ELSE IF 2 * r > d THEN q + 1
        ELSE IF q % 2 = 0 THEN q ELSE q + 1

\* df.round(2): numbers are counted in thousandths
Round2Cell(x) ==
    IF x = NaN THEN NaN
    ELSE IF x.k = "frac" THEN Num(10 * RoundHalfEven(x.n, 10 * x.d))
    ELSE Num(10 * RoundHalfEven(x.v, 10))

Round2(df) ==
    Table(df.cols,
          [i \in DOMAIN df.rows |->
              [time |-> df.rows[i].time,
               cell |-> [c \in df.cols |-> Round2Cell(df.rows[i].cell[c])]]])

\* The part of forecast_to_daily_dataframe under "if 'hourly' in d"
\* hourly.resample('d').agg(agg), hourly.round(2) and df.join(hourly), for
\* the hourly table in the record's timezone
AggregateAndJoin(df, hourly) ==
    Only({IF IsError(resampled) THEN resampled
          ELSE Only({Join(df, rounded) : rounded \in {Round2(resampled)}}) :
             resampled \in {ResampleAgg(hourly, AggKeys(hourly))}})

JoinHourly(df, d) ==
    Only({IF IsError(hourly0) THEN hourly0
          ELSE Only({AggregateAndJoin(df, hourly) :
                        hourly \in {tz_convert(hourly0, d.timezone)}}) :
             hourly0 \in {hourly_to_dataframe(d.hourly.data)}})

\* The part of forecast_to_daily_dataframe after its first line
ConvertAndJoin(df0, d) ==
    IF "timezone" \notin DOMAIN d THEN Raise("KeyError")
    ELSE Only({IF "hourly" \notin DOMAIN d THEN df ELSE JoinHourly(df, d) :
                  df \in {tz_convert(df0, d.timezone)}})

forecast_to_daily_dataframe(d) ==
    IF "daily" \notin DOMAIN d THEN Raise("KeyError")
    ELSE Only({IF IsError(df0) THEN df0 ELSE ConvertAndJoin(df0, d) :
                  df0 \in {datablock_to_dataframe(d.daily.data)}})

----------------------------------------------------------------------------
\* The call of forecast_to_daily_dataframe.

TimeZones == {"America/Chicago", "Europe/Brussels"}
Temperatures == {5, 10}

\* The solar object the API sends with an hour of daylight
ApiSolar == {[azimuth |-> 270, ghi |-> 4]}

\* The daily record of a day, at its local midnight; extra names a field the
\* record carries beside temperatureHigh
DayRecord(day, tz, extra) ==
    CASE extra = "none" ->
            [time |-> LocalMidnight(day, tz), temperatureHigh |-> 7]
      [] extra = "temperature" ->
            [time |-> LocalMidnight(day, tz), temperatureHigh |-> 7,
             temperature |-> 9]
      [] extra = "solarGhi" ->
            [time |-> LocalMidnight(day, tz), temperatureHigh |-> 7,
             solarGhi |-> 9]

DailyBlocks(tz) ==
    {[i \in 1 .. n |-> DayRecord(i - 1, tz, extra)] :
        n \in 0 .. MaxDays, extra \in {"none", "temperature", "solarGhi"}}

\* The hourly records of instant t, with or without a temperature, with or
\* without a solar object
HourlyRecords(t, withTemperature) ==
    IF withTemperature
    THEN {[time |-> t, temperature |-> v] : v \in Temperatures}
            \cup {[time |-> t, temperature |-> v, solar |-> s] :
                     v \in Temperatures, s \in ApiSolar}
    ELSE {[time |-> t, summary |-> 1]}
            \cup {[time |-> t, summary |-> 1, solar |-> s] : s \in ApiSolar}

\* The hourly blocks the API sends: n consecutive hours from the local
\* midnight of day 0
RECURSIVE ApiHourlyOfLen(_, _, _)
ApiHourlyOfLen(n, tz, withTemperature) ==
    IF n = 0 THEN {<<>>}
    ELSE {Append(b, r) :
             b \in ApiHourlyOfLen(n - 1, tz, withTemperature),
             r \in HourlyRecords(LocalMidnight(0, tz) + n - 1, withTemperature)}

ApiHourlyBlocks(tz) ==
    UNION {ApiHourlyOfLen(n, tz, w) : n \in 1 .. MaxHourly, w \in BOOLEAN}

\* Hourly blocks the API does not send: solar null in every record, and a
\* solar object without azimuth
OddHourlyBlocks(tz) ==
    {<<[time |-> LocalMidnight(0, tz), temperature |-> 5, solar |-> Null]>>,
     <<[time |-> LocalMidnight(0, tz), temperature |-> 5, solar |-> [ghi |-> 4]]>>}

Forecasts ==
    UNION {{[timezone |-> tz, daily |-> [data |-> db]] : db \in DailyBlocks(tz)}
            \cup {[timezone |-> tz, daily |-> [data |-> db],
                   hourly |-> [data |-> hb]] :
                     db \in DailyBlocks(tz),
                     hb \in ApiHourlyBlocks(tz) \cup OddHourlyBlocks(tz)} :
           tz \in TimeZones}

InitDaily ==
    /\ pc = "call"
    /\ op = "forecast_to_daily_dataframe"
    /\ arg \in Forecasts
    /\ ret = None
    /\ build \in [aggEmptyRaises : BOOLEAN]
    /\ NoFetch

CallForecastToDaily ==
    /\ pc = "call"
    /\ op = "forecast_to_daily_dataframe"
    /\ ret' = forecast_to_daily_dataframe(arg)
    /\ pc' = "done"
    /\ UNCHANGED <<op, arg, build, days, idx, requests, responses, frames, hframes>>

NextDaily == CallForecastToDaily

SpecDaily == InitDaily /\ [][NextDaily]_vars

----------------------------------------------------------------------------
\* get_daily_dataframe and get_daily_and_hourly_dataframes

\* dt.datetime(year=date.year, month=date.month, day=date.day)
Midnight(date) == date * SlotsPerDay

\* A loop that stops one day short
HasNextButLast(ds, i) == i < Len(ds) - 1

\* for date in days: is there a day left after idx of them?
HasNext(ds, i) == i < Len(ds)

\* A status that is never looked at
NeverRaises(r) == None

\* r.raise_for_status()
raise_for_status(r) ==
    IF r.status = "error" THEN Raise("HTTPError") ELSE None

\* pd.concat(frames, sort=True): the rows of the frames in order, under the
\* union of their columns; nothing to concatenate is a ValueError
Concat(fs) ==
    IF fs = <<>> THEN Raise("ValueError")
    ELSE LET cols == UNION {fs[i].cols : i \in DOMAIN fs}
             Widen(f) ==
                 [j \in DOMAIN f.rows |->
                     [time |-> f.rows[j].time,
                      cell |-> [c \in cols |->
                                  IF c \in f.cols THEN f.rows[j].cell[c]
                                  ELSE NaN]]]
         IN  Table(cols, Flatten([i \in DOMAIN fs |-> Widen(fs[i])]))

\* The timezone of the place asked about
PlaceTimezone == "America/Chicago"

\* What the server may answer to the request for a day: an error status with
\* an error body; the day's record with its hours; or two daily records and
\* no hourly block
Responses(date) ==
    {[status |-> "error", json |-> [code |-> 403]],
     [status |-> "ok",
      json |-> [timezone |-> PlaceTimezone,
                daily |-> [data |-> <<DayRecord(date, PlaceTimezone, "none")>>],
                hourly |-> [data |->
                    <<[time |-> LocalMidnight(date, PlaceTimezone),
                       temperature |-> 5],
                      [time |-> LocalMidnight(date, PlaceTimezone) + 1,
                       temperature |-> 10,
                       solar |-> [azimuth |-> 270, ghi |-> 4]]>>]]],
     [status |-> "ok",
      json |-> [timezone |-> PlaceTimezone,
                daily |-> [data |-> <<DayRecord(date, PlaceTimezone, "none"),
                                      DayRecord(date + 1, PlaceTimezone, "none")>>]]]}

FetchOps == {"get_daily_dataframe", "get_daily_and_hourly_dataframes"}

InitFetch ==
    /\ pc = "call"
    /\ op \in FetchOps
    /\ arg \in [start : Instants, end : Instants]
    /\ ret = None
    /\ build = [aggEmptyRaises |-> FALSE]
    /\ NoFetch

\* days = dayset(start=start, end=end)
Enumerate ==
    /\ pc = "call"
    /\ op \in FetchOps
    /\ days' = dayset(arg.start, arg.end)
    /\ pc' = "loop"
    /\ UNCHANGED <<op, arg, ret, build, idx, requests, responses, frames, hframes>>

\* The loop takes the next day and _req_forecast sends the request for it
IssueRequest ==
    /\ pc = "loop"
    /\ HasNext(days, idx)
    /\ requests' = Append(requests, [time |-> Midnight(days[idx + 1]),
                                     solar |-> TRUE])
    /\ pc' = "waiting"
    /\ UNCHANGED <<op, arg, ret, build, days, idx, responses, frames, hframes>>

\* The response arrives: raise_for_status, r.json(), and the rest of the
\* loop body; an exception ends the call
\* get_daily_and_hourly_dataframes: hourly_to_dataframe(f['hourly']['data'])
\* and its tz_convert
HourFrame(f) ==
    IF "hourly" \notin DOMAIN f THEN Raise("KeyError")
    ELSE Only({IF IsError(hour_frame) THEN hour_frame
               ELSE tz_convert(hour_frame, f.timezone) :
                  hour_frame \in {hourly_to_dataframe(f.hourly.data)}})

\* What the loop body makes of a response: the exception it raises, or the
\* frames it appends
Frames(day_frame, f) ==
    IF op = "get_daily_dataframe"
    THEN [kind |-> "frames", day_frame |-> day_frame]
    ELSE Only({IF IsError(hour_frame) THEN hour_frame
               ELSE [kind |-> "frames", day_frame |-> day_frame,
                     hour_frame |-> hour_frame] :
                  hour_frame \in {HourFrame(f)}})

LoopBody(r) ==
    IF IsError(raise_for_status(r)) THEN raise_for_status(r)
    ELSE Only({IF IsError(day_frame) THEN day_frame
               ELSE Frames(day_frame, r.json) :
                  day_frame \in {forecast_to_daily_dataframe(r.json)}})

Handle(r) ==
    /\ responses' = Append(responses, r)
    /\ \E out \in {LoopBody(r)} :
           IF IsError(out)
           THEN /\ ret' = out
                /\ pc' = "done"
                /\ UNCHANGED <<idx, frames, hframes>>
           ELSE /\ frames' = Append(frames, out.day_frame)
                /\ hframes' = IF op = "get_daily_and_hourly_dataframes"
                              THEN Append(hframes, out.hour_frame)
                              ELSE hframes
                /\ idx' = idx + 1
                /\ pc' = "loop"
                /\ UNCHANGED ret
    /\ UNCHANGED <<op, arg, build, days, requests>>

Receive ==
    /\ pc = "waiting"
    /\ \E r \in Responses(days[idx + 1]) : Handle(r)

\* After the last day: pd.concat of what was collected
Return ==
    /\ pc = "loop"
    /\ ~HasNext(days, idx)
    /\ \E day_df \in {Concat(frames)} :
           IF IsError(day_df) \/ op = "get_daily_dataframe" THEN ret' = day_df
           ELSE \E hour_df \in {Concat(hframes)} :
                    ret' = IF IsError(hour_df) THEN hour_df
                           ELSE [kind |-> "tables", day_df |-> day_df,
                                 hour_df |-> hour_df]
    /\ pc' = "done"
    /\ UNCHANGED <<op, arg, build, days, idx, requests, responses, frames, hframes>>

NextFetch ==
    \/ Enumerate
    \/ IssueRequest
    \/ Receive
    \/ Return

SpecFetch == InitFetch /\ [][NextFetch]_vars

----------------------------------------------------------------------------
\* The call of dayset.

InitDayset ==
    /\ pc = "call"
    /\ op = "dayset"
    /\ arg \in [start : Instants, end : Instants]
    /\ ret = None
    /\ build = [aggEmptyRaises |-> FALSE]
    /\ NoFetch

CallDayset ==
    /\ pc = "call"
    /\ op = "dayset"
    /\ ret' = List(dayset(arg.start, arg.end))
    /\ pc' = "done"
    /\ UNCHANGED <<op, arg, build, days, idx, requests, responses, frames, hframes>>

NextDayset == CallDayset

SpecDayset == InitDayset /\ [][NextDayset]_vars

----------------------------------------------------------------------------
\* C3: for all instants start <= end, dayset(start, end) is exactly the
\* calendar dates from start's date through end's date inclusive, in
\* ascending order without duplicates: (end.date - start.date).days + 1 of
\* them, also when start and end carry a time of day.
C3_DaysetCoversEveryDate ==
    (pc = "done" /\ op = "dayset" /\ arg.start <= arg.end) =>
        /\ Len(ret.items) = Date(arg.end) - Date(arg.start) + 1
        /\ \A i \in DOMAIN ret.items : ret.items[i] = Date(arg.start) + i - 1

----------------------------------------------------------------------------
\* What a record of a block carries.

HasSolar(r) == "solar" \in DOMAIN r /\ r.solar # Null
SolarPrefixed == {"solarAzimuth", "solarGhi"}

\* C4: for an hourly block in which some records carry a solar object with
\* azimuth and ghi and the others carry no solar value, the table has no
\* "solar" column, solarAzimuth = (azimuth + 90) mod 360 and solarGhi = ghi
\* on every row whose record carried solar, and both are missing on exactly
\* the rows whose record had none.
C4_SolarFlattened ==
    (/\ pc = "done" /\ op = "hourly_to_dataframe"
     /\ \E i \in DOMAIN arg : HasSolar(arg[i])
     /\ \A i \in DOMAIN arg :
            HasSolar(arg[i]) => DOMAIN arg[i].solar = {"azimuth", "ghi"})
    =>
        /\ ret.kind = "table"
        /\ "solar" \notin ret.cols
        /\ SolarPrefixed \subseteq ret.cols
        /\ Len(ret.rows) = Len(arg)
        /\ \A i \in DOMAIN arg :
              /\ ret.rows[i].time.epoch = arg[i].time
              /\ IF HasSolar(arg[i])
                 THEN /\ ret.rows[i].cell["solarAzimuth"]
                            = Num((arg[i].solar.azimuth + 90) % 360)
                      /\ ret.rows[i].cell["solarGhi"] = Num(arg[i].solar.ghi)
                 ELSE /\ ret.rows[i].cell["solarAzimuth"] = NaN
                      /\ ret.rows[i].cell["solarGhi"] = NaN

\* C4's case: a record with azimuth 270 became solarAzimuth 0, beside a row
\* whose record had no solar value.
C4_Witness ==
    /\ pc = "done" /\ op = "hourly_to_dataframe"
    /\ Len(arg) >= 2
    /\ \A i \in DOMAIN arg :
           HasSolar(arg[i]) => DOMAIN arg[i].solar = {"azimuth", "ghi"}
    /\ \E i, j \in DOMAIN arg :
           /\ HasSolar(arg[i]) /\ arg[i].solar.azimuth = 270
           /\ ~HasSolar(arg[j])
           /\ ret.kind = "table"
           /\ ret.rows[i].cell["solarAzimuth"] = Num(0)
           /\ ret.rows[j].cell["solarGhi"] = NaN

\* C7: for every hourly block of at least one record (also one whose solar
\* field is null in every record, and one whose solar objects lack azimuth)
\* hourly_to_dataframe returns a table with one row per record, and with
\* solar-prefixed columns only when some record carried a solar value.
C7_OneRowPerRecord ==
    (pc = "done" /\ op = "hourly_to_dataframe" /\ arg # <<>>) =>
        /\ ret.kind = "table"
        /\ Len(ret.rows) = Len(arg)
        /\ (ret.cols \cap SolarPrefixed # {}) =>
               \E i \in DOMAIN arg : HasSolar(arg[i])

\* C9: datablock_to_dataframe of an empty sequence of records returns an
\* empty table and does not fail.
C9_EmptyBlockEmptyTable ==
    (pc = "done" /\ op = "datablock_to_dataframe" /\ arg = <<>>) =>
        /\ ret.kind = "table"
        /\ ret.rows = <<>>

----------------------------------------------------------------------------
\* What a forecast record carries, read off the JSON.

AggNames == {"temperature", "solarGhi"}

DailyOf(d) == d.daily.data
HourlyOf(d) == d.hourly.data

\* The fields of the daily records other than time
DailyFields(d) == UNION {DOMAIN DailyOf(d)[i] : i \in DOMAIN DailyOf(d)} \ {"time"}

\* The daily block is one the API sends: at least one day, and no field
\* named like an aggregate of the hourly table
ApiDaily(d) == DailyOf(d) # <<>> /\ DailyFields(d) \cap AggNames = {}

HasTemperature(r) == "temperature" \in DOMAIN r
HasGhi(r) == HasSolar(r) /\ "ghi" \in DOMAIN r.solar

\* The aggregate columns the hourly table of the record has
HourlyAggNames(d) ==
    {c \in AggNames :
        \E i \in DOMAIN HourlyOf(d) :
            IF c = "temperature" THEN HasTemperature(HourlyOf(d)[i])
            ELSE HasGhi(HourlyOf(d)[i])}

\* The local calendar day of an epoch time of the record
DayOfTime(d, t) == (t + UtcOffset(d.timezone)) \div HoursPerDay

\* The hours of the hourly block that fall in the day of daily record i
HoursOfDay(d, i) ==
    {j \in DOMAIN HourlyOf(d) :
        DayOfTime(d, HourlyOf(d)[j].time) = DayOfTime(d, DailyOf(d)[i].time)}

RECURSIVE SumTemperature(_, _)
SumTemperature(d, J) ==
    IF J = {} THEN 0
    ELSE LET j == CHOOSE x \in J : TRUE
         IN  HourlyOf(d)[j].temperature + SumTemperature(d, J \ {j})

RECURSIVE SumGhi(_, _)
SumGhi(d, J) ==
    IF J = {} THEN 0
    ELSE LET j == CHOOSE x \in J : TRUE
         IN  HourlyOf(d)[j].solar.ghi + SumGhi(d, J \ {j})

Abs(x) == IF x < 0 THEN -x ELSE x

\* cell is the number n / den rounded to two decimals: a multiple of 10
\* thousandths, the nearest one, the even one of two equally near
IsRounded2(cell, n, den) ==
    /\ cell.k = "num"
    /\ cell.v % 10 = 0
    /\ LET h == cell.v \div 10
       IN  /\ 2 * Abs(h * 10 * den - n) <= 10 * den
           /\ (2 * Abs(h * 10 * den - n) = 10 * den) => h % 2 = 0

\* The case of C5: a daily block the API sends, and an hourly block in which
\* every hour has a temperature and a solar object with ghi
C5_Case ==
    /\ pc = "done" /\ op = "forecast_to_daily_dataframe"
    /\ ApiDaily(arg)
    /\ "hourly" \in DOMAIN arg
    /\ \A j \in DOMAIN HourlyOf(arg) :
           /\ HasTemperature(HourlyOf(arg)[j])
           /\ HasGhi(HourlyOf(arg)[j])
           /\ "azimuth" \in DOMAIN HourlyOf(arg)[j].solar

\* The result has one row per daily record, indexed in the local timezone
C5_Rows ==
    /\ ret.kind = "table"
    /\ Len(ret.rows) = Len(DailyOf(arg))
    /\ \A i \in DOMAIN DailyOf(arg) :
           ret.rows[i].time = Timestamp(DailyOf(arg)[i].time, arg.timezone)

\* C5 as amended: in the case of C5 the result has one row per day of the
\* daily block, indexed in the record's timezone; each day's temperature is
\* the mean of the hourly temperatures of that local calendar day rounded to
\* 2 decimals, and each day's solarGhi is the sum of the hourly ghi of that
\* local calendar day rounded to 2 decimals.
C5_DailyAggregatesRounded ==
    C5_Case =>
        /\ C5_Rows
        /\ \A i \in DOMAIN DailyOf(arg) :
               HoursOfDay(arg, i) # {} =>
                   /\ IsRounded2(ret.rows[i].cell["temperature"],
                                 SumTemperature(arg, HoursOfDay(arg, i)),
                                 Cardinality(HoursOfDay(arg, i)))
                   /\ IsRounded2(ret.rows[i].cell["solarGhi"],
                                 SumGhi(arg, HoursOfDay(arg, i)), 1)

\* C5 as claimed: each day's solarGhi equals the sum of the hourly ghi of
\* that local calendar day (and the temperature is the rounded mean).
C5_SolarGhiIsTheSum ==
    C5_Case =>
        /\ C5_Rows
        /\ \A i \in DOMAIN DailyOf(arg) :
               HoursOfDay(arg, i) # {} =>
                   /\ IsRounded2(ret.rows[i].cell["temperature"],
                                 SumTemperature(arg, HoursOfDay(arg, i)),
                                 Cardinality(HoursOfDay(arg, i)))
                   /\ ret.rows[i].cell["solarGhi"]
                          = Num(SumGhi(arg, HoursOfDay(arg, i)))

\* C5's case: two days, each with hours of its own, the first day's mean
\* 7.5 thousandths rounded to 10 and its ghi sum 8 rounded to 10.
C5_Witness ==
    /\ C5_Case
    /\ Len(DailyOf(arg)) = 2
    /\ HoursOfDay(arg, 1) # {} /\ HoursOfDay(arg, 2) # {}
    /\ SumTemperature(arg, HoursOfDay(arg, 1)) = 15
    /\ ret.kind = "table"
    /\ ret.rows[1].cell["temperature"] = Num(10)
    /\ ret.rows[1].cell["solarGhi"] = Num(10)
    /\ ret.rows[2].cell["solarGhi"] = Num(0)

C8_OneRowPerDay ==
    (pc = "done" /\ op = "forecast_to_daily_dataframe" /\ ApiDaily(arg)) =>
        /\ ret.kind = "table"
        /\ Len(ret.rows) = Len(DailyOf(arg))
        /\ \A c \in ret.cols \cap AggNames :
               "hourly" \in DOMAIN arg /\ c \in HourlyAggNames(arg)

\* The case of C10: the hourly table was built and has an aggregate column
C10_Case ==
    /\ pc = "done" /\ op = "forecast_to_daily_dataframe"
    /\ DailyOf(arg) # <<>>
    /\ "hourly" \in DOMAIN arg
    /\ hourly_to_dataframe(HourlyOf(arg)).kind = "table"
    /\ HourlyAggNames(arg) # {}

\* The per-day aggregate of the hourly table
HourlyAggregate(d) ==
    LET hourly == tz_convert(hourly_to_dataframe(HourlyOf(d)), d.timezone)
    IN  Round2(ResampleAgg(hourly, HourlyAggNames(d)))

----------------------------------------------------------------------------
\* The fetch loops.

\* Every response so far was a success with exactly one daily record
AllOkOneRecord ==
    \A k \in DOMAIN responses :
        /\ responses[k].status = "ok"
        /\ Len(responses[k].json.daily.data) = 1

\* C1: for a range start <= end whose dayset has N days, get_daily_dataframe
\* issues its requests one per enumerated day in ascending day order, the
\* i-th anchored at midnight of the i-th day, never one before the previous
\* one has returned; and when every request succeeds and every response has
\* exactly one daily record, it issues exactly N requests and returns a table
\* of exactly N rows.
C1_OneRequestPerDay ==
    (op = "get_daily_dataframe" /\ arg.start <= arg.end) =>
        LET ds == dayset(arg.start, arg.end)
        IN  /\ Len(requests) <= Len(ds)
            /\ \A i \in DOMAIN requests : requests[i].time = ds[i] * SlotsPerDay
            /\ \A i \in 1 .. Len(ds) - 1 : ds[i] < ds[i + 1]
            /\ Len(responses) <= Len(requests)
            /\ Len(requests) <= Len(responses) + 1
            /\ (pc = "done" /\ AllOkOneRecord) =>
                   /\ Len(requests) = Len(ds)
                   /\ ret.kind = "table"
                   /\ Len(ret.rows) = Len(ds)

\* C1's case: three days, three successful one-record responses, a table of
\* three rows.
C1_Witness ==
    /\ op = "get_daily_dataframe" /\ arg.start <= arg.end
    /\ pc = "done" /\ AllOkOneRecord
    /\ Len(dayset(arg.start, arg.end)) = 3
    /\ Len(requests) = 3
    /\ ret.kind = "table" /\ Len(ret.rows) = 3

\* C2: in both fetch loops, once the request for the k-th day has returned a
\* non-success status the call has ended with that error and no table, the
\* failed request was the last one issued (no request for a later day) and
\* no request was issued twice (no retry).
C2_ErrorAbortsFetch ==
    \A k \in DOMAIN responses :
        responses[k].status = "error" =>
            /\ pc = "done"
            /\ ret = Raise("HTTPError")
            /\ Len(responses) = k
            /\ Len(requests) = k
            /\ \A i, j \in DOMAIN requests :
                   i # j => requests[i] # requests[j]

\* C2's case: the second of three days' requests failed, in the paired loop.
C2_Witness ==
    /\ op = "get_daily_and_hourly_dataframes"
    /\ Len(dayset(arg.start, arg.end)) = 3
    /\ Len(responses) = 2 /\ responses[2].status = "error"
    /\ responses[1].status = "ok"
    /\ Len(requests) = 2
    /\ ret = Raise("HTTPError")

=============================================================================
